---------------------------- MODULE Spec2Model ----------------------------
(***************************************************************************)
(* A model of the two programs of the repository:                          *)
(*   flappy_ai.py        the evolutionary variant (FlappyAI.evolve)        *)
(*   flappy_playable.py  the playable variant (FlappyGame.run)             *)
(*                                                                         *)
(* Numbers.  The programs compute with floats whose values are multiples   *)
(* of 0.1 (gravity 0.4, flap -7.0, pipe speed 2.5 and 2.0, fitness steps   *)
(* of 0.1).  The model keeps every length, velocity, weight, bias and      *)
(* fitness as an integer count of TENTHS: 300.0 is 3000, 0.4 is 4, the     *)
(* fitness score + frame * 0.1 is 10 * score + frame.  Scores, frame and   *)
(* generation counters are plain integers.  Float rounding is not          *)
(* modelled.  Random draws (random.uniform, random.random, random.sample)  *)
(* are nondeterministic choices from the finite sets named below.          *)
(*                                                                         *)
(* Objects.  A brain's "weights" list is a mutable Python list; the model  *)
(* keeps the lists in a heap (address -> list) and a brain holds the       *)
(* address, so that sharing a list between two brains is expressible.      *)
(***************************************************************************)
EXTENDS Integers, Sequences, FiniteSets

VARIABLES
    variant,         \* "evolve" (flappy_ai.py) or "playable" (flappy_playable.py)
    pc,              \* position of the main loop
    birds,           \* FlappyAI.birds / FlappyGame.all_birds (index 1 is the human)
    pipes,           \* FlappyAI.pipes / FlappyGame.pipes
    heap,            \* the weights lists: address -> <<w1, w2, w3, w4>>
    frame_count,     \* run_generation's frame_count; frames played since (re)start
    generation,      \* FlappyAI.generation
    best_score,      \* FlappyAI.best_score (tenths)
    fitness_scores,  \* what run_generation returned last: a list, None, or "unset"
    ranked,          \* create_next_generation's bird_fitness_pairs (bird indices)
    new_birds,       \* create_next_generation's new_birds
    game_over,       \* FlappyGame.game_over
    winner,          \* FlappyGame.winner
    flaps_left,      \* bookkeeping of the bound MaxHumanFlaps
    replacements,    \* history: how often evolve replaced the population
    seen_best,       \* history: greatest fitness returned by any completed generation (-1: none yet)
    quit_seen,       \* history: run_generation's last poll held a QUIT or an ESCAPE key
    frames_alive,    \* history: frames of this generation each bird finished alive
    restarted,       \* history: restart_game has run
    probe            \* a single call of a function under study: arguments and result

vars == <<variant, pc, birds, pipes, heap, frame_count, generation, best_score,
          fitness_scores, ranked, new_birds, game_over, winner, flaps_left,
          replacements, seen_best, quit_seen, frames_alive, restarted,
          probe>>

None == "None"

(***************************************************************************)
(* Bounds of the model.                                                    *)
(***************************************************************************)
\* FlappyAI.population_size is 20 in the source; the model runs a smaller one.
population_size == 4
\* evolve runs range(20) generations in the source.
generations == 2
\* run_generation's max_frames is 1000 in the source.
max_frames == 120
\* How many of a brain's five genes one mutate_brain call may change.
MaxMutatedGenes == 1
\* SPACE key presses the human may use between two restarts.
MaxHumanFlaps == 1
\* Frames the playable game is followed for after a (re)start.
MaxPlayFrames == 250
\* How many brains deep one line of descent is followed.
MaxLineage == 4

(***************************************************************************)
(* Program constants (tenths where they are lengths or velocities).        *)
(***************************************************************************)
bird_radius == 120
Pipe_width == 800
gravity == 4
flap_velocity == -70
floor_y == 5800
elite_count == 3
tournament_size == 3
mutation_strength == 3
clamp_limit == 30
ai_gap_size == 2000
ai_pipe_speed == 25
playable_gap_size == 1800
playable_pipe_speed == 20
pipe_spacing == 2000
max_pipes == 4
spawn_threshold == 6000
bird_start_x == 1000
bird_start_y == 3000
recycle_x == 8000
sigmoid_clamp == 500

(***************************************************************************)
(* Arithmetic helpers.                                                     *)
(***************************************************************************)
Min2(a, b) == IF a < b THEN a ELSE b
Max2(a, b) == IF a > b THEN a ELSE b
Abs(a) == IF a < 0 THEN -a ELSE a
SetMax(S) == CHOOSE m \in S : \A n \in S : n <= m
SetMin(S) == CHOOSE m \in S : \A n \in S : m <= n
SeqRange(s) == {s[i] : i \in 1..Len(s)}


(***************************************************************************)
(* The values the random draws are taken from.                             *)
(***************************************************************************)
\* create_random_brain (flappy_ai.py): weights in [-2.0, 2.0], bias in [-1.0, 1.0].
\* <<0,0,0,0>>/0 never flaps; <<20,0,0,0>>/-10 flaps exactly when y > 300.
BrainChoices ==
    { [weights |-> <<0, 0, 0, 0>>, bias |-> 0],
      [weights |-> <<20, 0, 0, 0>>, bias |-> -10] }
\* create_random_brain (flappy_playable.py): weights in [-1.5, 1.5], bias in [-0.5, 0.5].
\* <<0,0,0,0>>/5 always flaps; <<10,0,0,0>>/-5 flaps exactly when y > 300.
PlayableBrainChoices ==
    { [weights |-> <<0, 0, 0, 0>>, bias |-> 5],
      [weights |-> <<10, 0, 0, 0>>, bias |-> -5] }
\* Pipe.reset_height (flappy_ai.py): gap_center = random.uniform(150, 450).
GapCenters == {1500, 3000}
\* The three draws of one create_pipes call (flappy_ai.py): the first pipe's
\* gap varies, the two behind it get the middle gap.
InitialGaps == {<<g, 3000, 3000>> : g \in GapCenters}
\* The three draws of one create_initial_pipes call (flappy_playable.py).
PlayableInitialGaps == {<<3000, 3000, 3000>>}
\* Pipe.reset_height (flappy_playable.py): gap_center = random.uniform(180, 420).
PlayableGapCenters == {3000}
\* Pipe.update (flappy_ai.py): random.uniform(0, 100).
RecycleOffsets == {0, 1000}
\* mutate_brain: random.uniform(-mutation_strength, mutation_strength).
MutationDeltas == {-mutation_strength, mutation_strength}
\* pygame.event.get(): what one frame's poll delivers (a window close, a key
\* press, nothing).  The evolutionary variant reads QUIT and ESCAPE only.
Events == {"none", "QUIT", "ESCAPE", "SPACE", "R"}
EvolveEvents == {"none", "QUIT", "ESCAPE", "SPACE"}

(***************************************************************************)
(* The heap of weights lists.                                              *)
(***************************************************************************)
EmptyHeap == [a \in {} |-> <<>>]
Alloc(h) == SetMin({a \in 1..(Cardinality(DOMAIN h) + 1) : a \notin DOMAIN h})
Store(h, a, w) == [b \in (DOMAIN h) \cup {a} |-> IF b = a THEN w ELSE h[b]]
\* What the interpreter keeps once the lists no bird refers to are collected.
Collect(h, bs) == [a \in {bs[i].brain.weights : i \in 1..Len(bs)} \cap DOMAIN h |-> h[a]]
\* A brain as a value: its weights list read through the heap, and its bias.
BrainValue(brain, h) == [weights |-> h[brain.weights], bias |-> brain.bias]

(***************************************************************************)
(* Bird (flappy_ai.py; update and think are the same code in               *)
(* flappy_playable.py, whose flap and think add a guard).                  *)
(***************************************************************************)
\* The brain of a bird that has none (the human's brain is None): list 0.
NoBrain == [weights |-> 0, bias |-> 0]

\* Bird.__init__ with the brain it ends up with.
Bird(brain) ==
    [x |-> bird_start_x, y |-> bird_start_y, velocity |-> 0, alive |-> TRUE,
     score |-> 0, fitness |-> 0, brain |-> brain]

\* An update whose bounds check lets a bird stay alive on the bounds.
update_alive_on_bounds(bird) ==
    LET v == bird.velocity + gravity
        y == bird.y + v
    IN  [bird EXCEPT !.velocity = v, !.y = y,
                     !.alive = IF y < 0 \/ y > floor_y THEN FALSE ELSE @]

\* An update whose bounds check forgets the ceiling.
update_floor_only(bird) ==
    LET v == bird.velocity + gravity
        y == bird.y + v
    IN  [bird EXCEPT !.velocity = v, !.y = y,
                     !.alive = IF y >= floor_y THEN FALSE ELSE @]

\* An update that moves by the velocity it started with.
update_by_old_velocity(bird) ==
    LET y == bird.y + bird.velocity
    IN  [bird EXCEPT !.velocity = bird.velocity + gravity, !.y = y,
                     !.alive = IF y <= 0 \/ y >= floor_y THEN FALSE ELSE @]

\* Bird.update: gravity, then the move by the NEW velocity, then the bounds check.
update(bird) ==
    LET v == bird.velocity + gravity
        y == bird.y + v
    IN  [bird EXCEPT !.velocity = v, !.y = y,
                     !.alive = IF y <= 0 \/ y >= floor_y THEN FALSE ELSE @]

\* Bird.flap (flappy_ai.py).
flap(bird) == [bird EXCEPT !.velocity = flap_velocity]

\* A flap that forgets the "if self.alive" guard.
playable_flap_unguarded(bird) == [bird EXCEPT !.velocity = flap_velocity]

\* Bird.flap (flappy_playable.py): only a live bird flaps.
playable_flap(bird) == IF bird.alive THEN [bird EXCEPT !.velocity = flap_velocity] ELSE bird

\* A scan that lets a later pipe at the same distance replace the closest.
RECURSIVE closest_scan_latest(_, _, _, _, _)
closest_scan_latest(bird, ps, i, closest, min_distance) ==
    IF i > Len(ps) THEN closest
    ELSE IF /\ ps[i].x > bird.x - 500
            /\ (min_distance = -1 \/ Abs(ps[i].x - bird.x) <= min_distance)
         THEN closest_scan_latest(bird, ps, i + 1, i, Abs(ps[i].x - bird.x))
         ELSE closest_scan_latest(bird, ps, i + 1, closest, min_distance)

\* Bird.think, the scan for the closest pipe ahead: index of the pipe, 0 for None.
\* min_distance = -1 stands for float('inf').
RECURSIVE closest_scan(_, _, _, _, _)
closest_scan(bird, ps, i, closest, min_distance) ==
    IF i > Len(ps) THEN closest
    ELSE IF /\ ps[i].x > bird.x - 500
            /\ (min_distance = -1 \/ Abs(ps[i].x - bird.x) < min_distance)
         THEN closest_scan(bird, ps, i + 1, i, Abs(ps[i].x - bird.x))
         ELSE closest_scan(bird, ps, i + 1, closest, min_distance)

closest_pipe(bird, ps) ==
    LET c == closest_scan(bird, ps, 1, 0, -1)
    IN  IF c = 0 THEN ps[1] ELSE ps[c]

\* The network's output times 120000 (the common denominator of the four
\* normalisations and the tenths), clamped as the code clamps it to [-500, 500].
think_output(bird, ps, h) ==
    LET p == closest_pipe(bird, ps)
        w == h[bird.brain.weights]
        raw == 12000 * bird.brain.bias
               + 2 * bird.y * w[1]
               + 120 * bird.velocity * w[2]
               + 3 * (p.x - bird.x) * w[3]
               + (p.top_height + p.bottom_height) * w[4]
    IN  Max2(-sigmoid_clamp * 120000, Min2(sigmoid_clamp * 120000, raw))

\* A think that flaps at sigmoid(output) >= 0.5.
think_at_least_half(bird, ps, h) == think_output(bird, ps, h) >= 0

\* Bird.think: sigmoid(output) > 0.5 exactly when output > 0.
think(bird, ps, h) == think_output(bird, ps, h) > 0

\* Bird.think (flappy_playable.py): the human never decides by network.
playable_think(bird, ps, h) == IF ~bird.is_ai THEN FALSE ELSE think(bird, ps, h)

\* A copy_brain without ".copy()": the new dict holds the parent's own list.
copy_brain_shared(bird, h) ==
    [brain |-> [weights |-> bird.brain.weights, bias |-> bird.brain.bias], heap |-> h]

\* Bird.copy_brain: a new dict holding a copy of the list and the bias.
copy_brain(bird, h) ==
    LET a == Alloc(h)
    IN  [brain |-> [weights |-> a, bias |-> bird.brain.bias],
         heap |-> Store(h, a, h[bird.brain.weights])]

(***************************************************************************)
(* Pipe.                                                                   *)
(***************************************************************************)
\* Pipe.reset_height (flappy_ai.py), gap_center being the draw.
reset_height(pipe, gap_center) ==
    [pipe EXCEPT !.top_height = gap_center - (ai_gap_size \div 2),
                 !.bottom_height = gap_center + (ai_gap_size \div 2)]

\* Pipe.__init__ (flappy_ai.py).
Pipe(x, gap_center) == reset_height([x |-> x, top_height |-> 0, bottom_height |-> 0], gap_center)

\* A Pipe.update that never brings a pipe back.
Pipe_update_never_recycles(pipe, offset, gap_center) ==
    [pipe EXCEPT !.x = @ - ai_pipe_speed]

\* Pipe.update (flappy_ai.py): move left; recycle once fully off screen.
Pipe_update(pipe, offset, gap_center) ==
    LET moved == [pipe EXCEPT !.x = @ - ai_pipe_speed]
    IN  IF moved.x < -Pipe_width
        THEN reset_height([moved EXCEPT !.x = recycle_x + offset], gap_center)
        ELSE moved

\* One recycle's draws.
RecycleDraws == {[offset |-> o, gap_center |-> g] : o \in RecycleOffsets, g \in GapCenters}

\* "for pipe in self.pipes: pipe.update()": the pipe lists it can produce.
\* Pipe.update draws only when it recycles its pipe.
update_pipes(ps) ==
    IF \A i \in 1..Len(ps) : ps[i].x - ai_pipe_speed >= -Pipe_width
    THEN {[i \in 1..Len(ps) |-> Pipe_update(ps[i], 0, 0)]}
    ELSE {[i \in 1..Len(ps) |-> Pipe_update(ps[i], d[i].offset, d[i].gap_center)] :
             d \in [1..Len(ps) -> RecycleDraws]}

\* A collides_with whose horizontal test counts touching edges.
collides_with_touching(pipe, bird) ==
    IF /\ bird.x + bird_radius >= pipe.x
       /\ bird.x - bird_radius <= pipe.x + Pipe_width
    THEN (\/ bird.y - bird_radius < pipe.top_height
          \/ bird.y + bird_radius > pipe.bottom_height)
    ELSE FALSE

\* Pipe.collides_with.
collides_with(pipe, bird) ==
    IF /\ bird.x + bird_radius > pipe.x
       /\ bird.x - bird_radius < pipe.x + Pipe_width
    THEN (\/ bird.y - bird_radius < pipe.top_height
          \/ bird.y + bird_radius > pipe.bottom_height)
    ELSE FALSE

(***************************************************************************)
(* FlappyAI: selection and mutation.                                       *)
(***************************************************************************)
\* list.sort(key=..., reverse=True): descending and stable.  The result lists
\* the positions of keys, best first; equal keys keep their order.
sort_desc(keys) ==
    LET n == Len(keys)
        place(k) == 1 + Cardinality({j \in 1..n :
                          keys[j] > keys[k] \/ (keys[j] = keys[k] /\ j < k)})
    IN  [r \in 1..n |-> CHOOSE k \in 1..n : place(k) = r]

\* random.sample(pairs, min(tournament_size, len(pairs))): sequences of
\* distinct positions of the ranked list.
Samples(n) ==
    LET k == Min2(tournament_size, n)
    IN  {s \in [1..k -> 1..n] : \A i, j \in 1..k : i # j => s[i] # s[j]}

\* A tournament that returns the last bird of the sorted sample.
tournament_selection_worst(rk, fit, sample) ==
    LET keys == [k \in 1..Len(sample) |-> fit[rk[sample[k]]]]
        order == sort_desc(keys)
    IN  rk[sample[order[Len(sample)]]]

\* tournament_selection: the sample, sorted by fitness (descending, stable);
\* its first bird.  rk is bird_fitness_pairs (bird indices, best first), fit
\* the fitness list.
tournament_selection(rk, fit, sample) ==
    LET keys == [k \in 1..Len(sample) |-> fit[rk[sample[k]]]]
        order == sort_desc(keys)
    IN  rk[sample[order[1]]]

\* A mutation that forgets to clamp.
no_clamp(v) == v

\* The clamp of mutate_brain: max(-3.0, min(3.0, v)).
clamp(v) == Max2(-clamp_limit, Min2(clamp_limit, v))

\* One gene's draws in mutate_brain: random.random() < mutation_rate or not,
\* and the delta when it is.
MutationOutcomes ==
    {[hit |-> FALSE, delta |-> 0]} \cup {[hit |-> TRUE, delta |-> d] : d \in MutationDeltas}
MutationChoices ==
    {m \in [1..5 -> MutationOutcomes] :
        Cardinality({i \in 1..5 : m[i].hit}) <= MaxMutatedGenes}

\* mutate_brain: changes the weights list in place and the brain's bias;
\* genes 1..4 are the weights, gene 5 the bias.
mutate_brain(brain, h, m) ==
    LET w == h[brain.weights]
        w2 == [i \in 1..4 |-> IF m[i].hit THEN clamp(w[i] + m[i].delta) ELSE w[i]]
        b2 == IF m[5].hit THEN clamp(brain.bias + m[5].delta) ELSE brain.bias
    IN  [brain |-> [brain EXCEPT !.bias = b2],
         heap |-> [h EXCEPT ![brain.weights] = w2]]

(***************************************************************************)
(* FlappyAI.run_generation, piece by piece.                                *)
(***************************************************************************)
\* An event loop that forgets the ESCAPE key.
quit_on_close_only(e) == e = "QUIT"

\* run_generation's event loop returns None on a QUIT event and on an ESCAPE key.
quit_requested(e) == e = "QUIT" \/ e = "ESCAPE"

\* The reset loop at the head of run_generation.
reset_bird(bird) ==
    [bird EXCEPT !.x = bird_start_x, !.y = bird_start_y, !.velocity = 0,
                 !.alive = TRUE, !.score = 0, !.fitness = 0]

\* create_pipes, g being the three gap draws.
create_pipes(g) == <<Pipe(4000, g[1]), Pipe(6000, g[2]), Pipe(8000, g[3])>>

\* create_population, b being the brains drawn; the lists go to a fresh heap.
create_population(b) ==
    [birds |-> [i \in 1..population_size |-> Bird([weights |-> i, bias |-> b[i].bias])],
     heap |-> [i \in 1..population_size |-> b[i].weights]]

\* run_generation's alive_birds, as bird indices.
alive_birds(bs) == {i \in 1..Len(bs) : bs[i].alive}

\* A fitness with the two terms subtracted the wrong way round.
fitness_of_minus_score(bird, frame) == frame - 10 * bird.score

\* bird.fitness = bird.score + frame_count * 0.1 (tenths).
fitness_of(bird, frame) == 10 * bird.score + frame

\* A loop body that credits the frame before it looks for a pipe collision.
step_bird_scores_first(bird, ps, h, frame) ==
    IF ~bird.alive THEN bird
    ELSE LET decided == IF think(bird, ps, h) THEN flap(bird) ELSE bird
             moved == update(decided)
         IN  IF ~moved.alive
             THEN [moved EXCEPT !.fitness = fitness_of(moved, frame)]
             ELSE LET credited == [moved EXCEPT !.score = @ + 1]
                  IN  IF \E i \in 1..Len(ps) : collides_with(ps[i], moved)
                      THEN [credited EXCEPT !.alive = FALSE,
                                            !.fitness = fitness_of(credited, frame)]
                      ELSE credited

\* The body of "for bird in alive_birds" for one bird, ps being the pipes
\* already moved in this frame.  A bird that was dead at the start of the
\* frame is not in alive_birds and is left alone.
step_bird(bird, ps, h, frame) ==
    IF ~bird.alive THEN bird
    ELSE LET decided == IF think(bird, ps, h) THEN flap(bird) ELSE bird
             moved == update(decided)
         IN  IF ~moved.alive
             THEN [moved EXCEPT !.fitness = fitness_of(moved, frame)]
             ELSE IF \E i \in 1..Len(ps) : collides_with(ps[i], moved)
                  THEN [moved EXCEPT !.alive = FALSE, !.fitness = fitness_of(moved, frame)]
                  ELSE [moved EXCEPT !.score = @ + 1]

\* A final loop that forgets "if bird.alive" and recomputes every fitness.
final_fitness_of_all(bird, frame) == [bird EXCEPT !.fitness = fitness_of(bird, frame)]

\* The loop after the frame loop: fitness of the birds still alive.
final_fitness(bird, frame) ==
    IF bird.alive THEN [bird EXCEPT !.fitness = fitness_of(bird, frame)] ELSE bird

\* An update that takes the latest generation's best without comparing.
update_best_latest(best, fit) == IF Len(fit) > 0 THEN SetMax(SeqRange(fit)) ELSE 0

\* evolve's update of the running best: best_fitness = max(fitness_scores)
\* (0 for an empty list), kept when greater.
update_best(best, fit) ==
    LET best_fitness == IF Len(fit) > 0 THEN SetMax(SeqRange(fit)) ELSE 0
    IN  IF best_fitness > best THEN best_fitness ELSE best

\* create_next_generation's elite loop: the first min(3, len) ranked birds,
\* each brain copied into a new bird.  Returns the new birds and the heap.
RECURSIVE elites(_, _, _, _, _)
elites(bs, rk, h, i, acc) ==
    IF i > Min2(elite_count, Len(rk)) THEN [new_birds |-> acc, heap |-> h]
    ELSE LET c == copy_brain(bs[rk[i]], h)
         IN  elites(bs, rk, c.heap, i + 1, Append(acc, Bird(c.brain)))

NoWinner == [score |-> 0, name |-> None]
NoResult == [kind |-> "unset", values |-> <<>>]
Aborted == [kind |-> None, values |-> <<>>]
FitnessList(v) == [kind |-> "list", values |-> v]

(***************************************************************************)
(* The evolutionary variant: FlappyAI.evolve.                              *)
(***************************************************************************)
NoProbe == [fn |-> None]

\* A while loop that runs once too often.
needs_offspring_inclusive(nb) == Len(nb) <= population_size

\* create_next_generation's "while len(new_birds) < self.population_size".
needs_offspring(nb) == Len(nb) < population_size

\* An "if generation < 20": the last generation is replaced as well.
replaces_population_always(g) == g - 1 < generations

\* evolve's "if generation < 19" (the last index of range(20)), g being
\* self.generation, which is the loop index plus one.
replaces_population(g) == g - 1 < generations - 1

\* evolve's "for generation in range(20)": another iteration follows while
\* fewer than that many have begun, g being self.generation.
loop_continues(g) == g < generations

InitEvolve ==
    /\ variant = "evolve"
    /\ pc = "evolve"
    /\ birds = <<>>
    /\ pipes = <<>>
    /\ heap = EmptyHeap
    /\ frame_count = 0
    /\ generation = 0
    /\ best_score = 0
    /\ fitness_scores = NoResult
    /\ ranked = <<>>
    /\ new_birds = <<>>
    /\ game_over = FALSE
    /\ winner = NoWinner
    /\ flaps_left = 0
    /\ replacements = 0
    /\ frames_alive = <<>>
    /\ restarted = FALSE
    /\ seen_best = -1
    /\ quit_seen = FALSE
    /\ probe = NoProbe

\* The head of one iteration of evolve's for loop, up to run_generation's
\* frame loop: the population is created in the first generation, every bird
\* is reset and the pipes are created.
BeginGeneration ==
    /\ variant = "evolve" /\ pc = "evolve"
    /\ loop_continues(generation)
    /\ \E g \in InitialGaps : pipes' = create_pipes(g)
    /\ IF generation = 0
       THEN \E b \in [1..population_size -> BrainChoices] :
              LET pop == create_population(b)
              IN  /\ birds' = [i \in 1..Len(pop.birds) |-> reset_bird(pop.birds[i])]
                  /\ heap' = pop.heap
       ELSE /\ birds' = [i \in 1..Len(birds) |-> reset_bird(birds[i])]
            /\ heap' = heap
    /\ generation' = generation + 1
    /\ frame_count' = 0
    /\ pc' = "frame"
    /\ frames_alive' = [i \in 1..population_size |-> 0]
    /\ UNCHANGED restarted
    /\ UNCHANGED <<variant, best_score, fitness_scores, ranked, new_birds, game_over,
                   winner, flaps_left, replacements, seen_best, quit_seen, probe>>

\* A frame whose poll delivers a quit: run_generation returns None at once,
\* evolve leaves its loop.
QuitGeneration(e) ==
    /\ variant = "evolve" /\ pc = "frame"
    /\ frame_count < max_frames
    /\ quit_requested(e)
    /\ fitness_scores' = Aborted
    /\ quit_seen' = (e \in {"QUIT", "ESCAPE"})
    /\ pc' = "done"
    /\ UNCHANGED <<variant, birds, pipes, heap, frame_count, generation, best_score,
                   ranked, new_birds, game_over, winner, flaps_left, replacements,
                   frames_alive, restarted,
                   seen_best, probe>>

\* A frame with no quit and a bird alive: the pipes move, then every bird
\* that was alive at the start of the frame decides, moves and is checked.
FrameStep(e) ==
    /\ variant = "evolve" /\ pc = "frame"
    /\ frame_count < max_frames
    /\ ~quit_requested(e)
    /\ alive_birds(birds) # {}
    /\ \E ps \in update_pipes(pipes) :
         /\ pipes' = ps
         /\ birds' = [i \in 1..Len(birds) |-> step_bird(birds[i], ps, heap, frame_count)]
    /\ frame_count' = frame_count + 1
    /\ quit_seen' = (e \in {"QUIT", "ESCAPE"})
    /\ frames_alive' = [i \in 1..Len(birds) |->
                           IF birds'[i].alive THEN frames_alive[i] + 1 ELSE frames_alive[i]]
    /\ UNCHANGED restarted
    /\ UNCHANGED <<variant, pc, heap, generation, best_score, fitness_scores, ranked,
                   new_birds, game_over, winner, flaps_left, replacements, seen_best,
                   probe>>

\* What follows the frame loop: the final fitness loop, the returned list,
\* evolve's bookkeeping and, except in the last iteration, the head of
\* create_next_generation (the sort and the elites).
FinishRun ==
    LET done == [i \in 1..Len(birds) |-> final_fitness(birds[i], frame_count)]
        fit == [i \in 1..Len(done) |-> done[i].fitness]
        rk == sort_desc(fit)
        el == elites(done, rk, heap, 1, <<>>)
    IN  /\ birds' = done
        /\ fitness_scores' = FitnessList(fit)
        /\ best_score' = update_best(best_score, fit)
        /\ seen_best' = SetMax({seen_best} \cup SeqRange(fit))
        /\ IF replaces_population(generation)
           THEN /\ ranked' = rk
                /\ new_birds' = el.new_birds
                /\ heap' = el.heap
                /\ pc' = "offspring"
           ELSE /\ pc' = "evolve"
                /\ UNCHANGED <<ranked, new_birds, heap>>
        /\ UNCHANGED <<variant, pipes, frame_count, generation, game_over, winner,
                       flaps_left, replacements, frames_alive, restarted, probe>>

\* A frame with no quit and no bird alive: the loop breaks.
BreakGeneration(e) ==
    /\ variant = "evolve" /\ pc = "frame"
    /\ frame_count < max_frames
    /\ ~quit_requested(e)
    /\ alive_birds(birds) = {}
    /\ quit_seen' = (e \in {"QUIT", "ESCAPE"})
    /\ FinishRun

\* The frame budget is used up: the loop ends without another poll.
ExhaustGeneration ==
    /\ variant = "evolve" /\ pc = "frame"
    /\ ~(frame_count < max_frames)
    /\ UNCHANGED quit_seen
    /\ FinishRun

\* One iteration of create_next_generation's while loop: a tournament, a
\* copy of the winner's brain, its mutation.
Offspring ==
    /\ variant = "evolve" /\ pc = "offspring"
    /\ needs_offspring(new_birds)
    /\ \E sample \in Samples(Len(ranked)), m \in MutationChoices :
         LET parent == birds[tournament_selection(ranked, fitness_scores.values, sample)]
             c == copy_brain(parent, heap)
             mu == mutate_brain(c.brain, c.heap, m)
         IN  /\ new_birds' = Append(new_birds, Bird(mu.brain))
             /\ heap' = mu.heap
    /\ UNCHANGED <<variant, pc, birds, pipes, frame_count, generation, best_score,
                   fitness_scores, ranked, game_over, winner, flaps_left,
                   replacements, frames_alive, restarted, seen_best, quit_seen, probe>>

\* The while loop is over: self.birds = new_birds, and evolve goes on to the
\* next generation.  The old birds and their lists are garbage.
Replace ==
    /\ variant = "evolve" /\ pc = "offspring"
    /\ ~needs_offspring(new_birds)
    /\ birds' = new_birds
    /\ heap' = Collect(heap, new_birds)
    /\ new_birds' = <<>>
    /\ ranked' = <<>>
    /\ replacements' = replacements + 1
    /\ frames_alive' = <<>>
    /\ pc' = "evolve"
    /\ UNCHANGED restarted
    /\ UNCHANGED <<variant, pipes, frame_count, generation, best_score, fitness_scores,
                   game_over, winner, flaps_left, seen_best, quit_seen, probe>>

\* The for loop has run its last iteration: evolve ends.
EndEvolve ==
    /\ variant = "evolve" /\ pc = "evolve"
    /\ ~loop_continues(generation)
    /\ pc' = "done"
    /\ UNCHANGED <<variant, birds, pipes, heap, frame_count, generation, best_score,
                   fitness_scores, ranked, new_birds, game_over, winner, flaps_left,
                   replacements, frames_alive, restarted, seen_best, quit_seen, probe>>

NextEvolve ==
    \/ BeginGeneration
    \/ EndEvolve
    \/ \E e \in EvolveEvents : QuitGeneration(e)
    \/ \E e \in EvolveEvents : FrameStep(e)
    \/ \E e \in EvolveEvents : BreakGeneration(e)
    \/ ExhaustGeneration
    \/ Offspring
    \/ Replace

(***************************************************************************)
(* The playable variant: FlappyGame (flappy_playable.py).                  *)
(***************************************************************************)
\* Bird.__init__ (flappy_playable.py); the human's brain is None.
PlayableBird(y, is_ai, brain) ==
    [x |-> bird_start_x, y |-> y, velocity |-> 0, alive |-> TRUE, score |-> 0,
     is_ai |-> is_ai, brain |-> brain]
BirdNames == <<"Human", "AI-Blue", "AI-Green", "AI-Yellow">>

\* The players of FlappyGame.__init__ and restart_game: the human at y = 250,
\* the AI birds at 300, 350 and 200 with the brains b drawn for them.
create_players(b) ==
    [birds |-> <<PlayableBird(2500, FALSE, NoBrain),
                 PlayableBird(3000, TRUE, [weights |-> 1, bias |-> b[1].bias]),
                 PlayableBird(3500, TRUE, [weights |-> 2, bias |-> b[2].bias]),
                 PlayableBird(2000, TRUE, [weights |-> 3, bias |-> b[3].bias])>>,
     heap |-> [i \in 1..3 |-> b[i].weights]]

\* Pipe.reset_height and Pipe.__init__ (flappy_playable.py).
playable_reset_height(pipe, gap_center) ==
    [pipe EXCEPT !.top_height = gap_center - (playable_gap_size \div 2),
                 !.bottom_height = gap_center + (playable_gap_size \div 2)]
PlayablePipe(x, gap_center) ==
    playable_reset_height([x |-> x, top_height |-> 0, bottom_height |-> 0], gap_center)

\* create_initial_pipes, g being the three gap draws.
create_initial_pipes(g) ==
    <<PlayablePipe(4000, g[1]), PlayablePipe(6000, g[2]), PlayablePipe(8000, g[3])>>

\* Pipe.update (flappy_playable.py).
playable_Pipe_update(pipe) == [pipe EXCEPT !.x = @ - playable_pipe_speed]

\* Pipe.passed_by.
passed_by(pipe, bird) == bird.x > pipe.x + Pipe_width

\* A filter that keeps a pipe whose right edge is on the left boundary.
RECURSIVE keep_on_screen_inclusive(_)
keep_on_screen_inclusive(ps) ==
    IF ps = <<>> THEN <<>>
    ELSE IF Head(ps).x >= -Pipe_width
         THEN <<Head(ps)>> \o keep_on_screen_inclusive(Tail(ps))
         ELSE keep_on_screen_inclusive(Tail(ps))

\* The list comprehension of update_pipes: the pipes with x > -width, in order.
RECURSIVE keep_on_screen(_)
keep_on_screen(ps) ==
    IF ps = <<>> THEN <<>>
    ELSE IF Head(ps).x > -Pipe_width
         THEN <<Head(ps)>> \o keep_on_screen(Tail(ps))
         ELSE keep_on_screen(Tail(ps))

\* FlappyGame.update_pipes, gap_center being the draw of the pipe it may add.
playable_update_pipes(ps, gap_center) ==
    LET moved == [i \in 1..Len(ps) |-> playable_Pipe_update(ps[i])]
        kept == keep_on_screen(moved)
    IN  IF Len(kept) < max_pipes /\ (kept = <<>> \/ kept[Len(kept)].x < spawn_threshold)
        THEN Append(kept, PlayablePipe(IF kept # <<>> THEN kept[Len(kept)].x + pipe_spacing
                                       ELSE 4000, gap_center))
        ELSE kept

\* Whether update_pipes draws a gap for the pipes ps.
playable_adds_pipe(ps) ==
    LET kept == keep_on_screen([i \in 1..Len(ps) |-> playable_Pipe_update(ps[i])])
    IN  Len(kept) < max_pipes /\ (kept = <<>> \/ kept[Len(kept)].x < spawn_threshold)

\* The body of update_birds' loop for one bird.
playable_step_bird(bird, ps, h) ==
    IF ~bird.alive THEN bird
    ELSE LET decided == IF bird.is_ai /\ playable_think(bird, ps, h)
                        THEN playable_flap(bird) ELSE bird
             moved == update(decided)
             checked == IF \E i \in 1..Len(ps) : collides_with(ps[i], moved)
                        THEN [moved EXCEPT !.alive = FALSE] ELSE moved
         IN  IF /\ checked.alive
                /\ \E i \in 1..Len(ps) : /\ passed_by(ps[i], checked)
                                         /\ ps[i].x + Pipe_width < checked.x - 50
             THEN [checked EXCEPT !.score = @ + 1]
             ELSE checked

\* end_game's winner: the first of the (score, name) pairs sorted by score,
\* descending and stable.
end_game_winner(bs) ==
    LET order == sort_desc([i \in 1..Len(bs) |-> bs[i].score])
    IN  [score |-> bs[order[1]].score, name |-> BirdNames[order[1]]]

InitPlayable ==
    /\ variant = "playable"
    /\ pc = "run"
    /\ \E b \in [1..3 -> PlayableBrainChoices] :
         /\ birds = create_players(b).birds
         /\ heap = create_players(b).heap
    /\ \E g \in PlayableInitialGaps : pipes = create_initial_pipes(g)
    /\ frame_count = 0
    /\ generation = 0
    /\ best_score = 0
    /\ fitness_scores = NoResult
    /\ ranked = <<>>
    /\ new_birds = <<>>
    /\ game_over = FALSE
    /\ winner = NoWinner
    /\ flaps_left = MaxHumanFlaps
    /\ replacements = 0
    /\ frames_alive = <<>>
    /\ restarted = FALSE
    /\ seen_best = 0
    /\ quit_seen = FALSE
    /\ probe = NoProbe

\* FlappyGame.update_birds over all birds.
update_birds(bs, ps, h) == [i \in 1..Len(bs) |-> playable_step_bird(bs[i], ps, h)]

\* A handler that restarts on R whether or not the game is over.
restart_honoured_anytime(e, over) == e = "R"

\* handle_events: "elif event.key == pygame.K_r and self.game_over".
restart_honoured(e, over) == e = "R" /\ over

\* A test that ends the game while one bird is still in the air.
game_ends_with_one_left(alive_count) == alive_count <= 1

\* update_birds: "if alive_count == 0: self.end_game()".
game_ends(alive_count) == alive_count = 0

\* The rest of one iteration of FlappyGame.run once handle_events has left
\* the birds bs, the pipes ps, the lists h, game_over = over, winner = win and
\* fc frames played: unless the game is over, update_pipes and update_birds
\* (whose alive_count counts the birds alive before their update).
Tick(bs, ps, h, over, win, fc) ==
    /\ heap' = h
    /\ IF over
       THEN /\ birds' = bs
            /\ pipes' = ps
            /\ game_over' = over
            /\ winner' = win
            /\ frame_count' = fc
       ELSE /\ fc < MaxPlayFrames
            /\ \E gap_center \in (IF playable_adds_pipe(ps) THEN PlayableGapCenters ELSE {0}) :
                 LET ps2 == playable_update_pipes(ps, gap_center)
                     bs2 == update_birds(bs, ps2, h)
                     alive_count == Cardinality({i \in 1..Len(bs) : bs[i].alive})
                 IN  /\ pipes' = ps2
                     /\ birds' = bs2
                     /\ game_over' = game_ends(alive_count)
                     /\ winner' = IF game_ends(alive_count) THEN end_game_winner(bs2) ELSE win
            /\ frame_count' = fc + 1

\* One iteration of FlappyGame.run whose poll delivers e, other than a
\* restart: handle_events (SPACE flaps the human, QUIT and ESCAPE end the
\* loop after this iteration, R is ignored while the game runs), then Tick.
PlayFrame(e) ==
    /\ variant = "playable" /\ pc = "run"
    /\ ~restart_honoured(e, game_over)
    /\ (e = "SPACE" /\ birds[1].alive) => flaps_left > 0
    /\ Tick(IF e = "SPACE" THEN [birds EXCEPT ![1] = playable_flap(birds[1])] ELSE birds,
            pipes, heap, game_over, winner, frame_count)
    /\ flaps_left' = IF e = "SPACE" /\ birds[1].alive THEN flaps_left - 1 ELSE flaps_left
    /\ pc' = IF quit_requested(e) THEN "done" ELSE "run"
    /\ UNCHANGED <<variant, generation, best_score, fitness_scores, ranked, new_birds,
                   replacements, frames_alive, restarted, seen_best, quit_seen, probe>>

\* One iteration of FlappyGame.run whose poll delivers R while the game is
\* over: restart_game (new players, new pipes; the old lists are garbage),
\* then Tick for the restarted game.
RestartFrame ==
    /\ variant = "playable" /\ pc = "run"
    /\ "R" \in Events
    /\ restart_honoured("R", game_over)
    /\ \E b \in [1..3 -> PlayableBrainChoices], g \in PlayableInitialGaps :
         Tick(create_players(b).birds, create_initial_pipes(g), create_players(b).heap,
              FALSE, NoWinner, 0)
    /\ flaps_left' = MaxHumanFlaps
    /\ restarted' = TRUE
    /\ pc' = "run"
    /\ UNCHANGED <<variant, generation, best_score, fitness_scores, ranked, new_birds,
                   replacements, frames_alive, seen_best, quit_seen, probe>>

NextPlayable ==
    \/ \E e \in Events : PlayFrame(e)
    \/ RestartFrame

Init == InitEvolve \/ InitPlayable
Next == NextEvolve \/ NextPlayable
Spec == Init /\ [][Next]_vars

\* The playable variant alone.
SpecPlayable == InitPlayable /\ [][NextPlayable]_vars

\* The evolutionary variant alone.  The interpreter keeps running evolve's
\* loops: a step that can be taken is taken.
SpecEvolve == InitEvolve /\ [][NextEvolve]_vars /\ WF_vars(NextEvolve)

(***************************************************************************)
(* One line of descent of a brain.  Every brain of an evolution run is     *)
(* made by create_random_brain or is copy_brain's copy of a brain of the   *)
(* generation before, mutated by mutate_brain unless it is an elite.       *)
(* birds holds the line's latest bird, generation its depth.               *)
(***************************************************************************)
\* create_random_brain's draws followed here: the corners of its ranges.
LineageBrains ==
    { [weights |-> <<20, -20, 0, 0>>, bias |-> 10],
      [weights |-> <<-20, 20, 0, 0>>, bias |-> -10] }

\* The variables a specification of a single line or call leaves alone.
idle == <<pipes, frame_count, best_score, fitness_scores, ranked, new_birds,
          game_over, winner, flaps_left, replacements, seen_best, quit_seen,
          frames_alive, restarted>>
InitIdle ==
    /\ pipes = <<>>
    /\ frame_count = 0
    /\ best_score = 0
    /\ fitness_scores = NoResult
    /\ ranked = <<>>
    /\ new_birds = <<>>
    /\ game_over = FALSE
    /\ winner = NoWinner
    /\ flaps_left = 0
    /\ replacements = 0
    /\ frames_alive = <<>>
    /\ restarted = FALSE
    /\ seen_best = -1
    /\ quit_seen = FALSE

InitLineage ==
    /\ variant = "lineage"
    /\ pc = "lineage"
    /\ \E b \in LineageBrains :
         /\ birds = <<Bird([weights |-> 1, bias |-> b.bias])>>
         /\ heap = <<b.weights>>
    /\ generation = 0
    /\ probe = NoProbe
    /\ InitIdle

\* create_next_generation's elite: new_bird.brain = elite_bird.copy_brain().
LineageElite ==
    /\ variant = "lineage" /\ pc = "lineage"
    /\ generation < MaxLineage
    /\ LET c == copy_brain(birds[1], heap)
       IN  /\ birds' = <<Bird(c.brain)>>
           /\ heap' = Collect(c.heap, <<Bird(c.brain)>>)
    /\ generation' = generation + 1
    /\ UNCHANGED <<variant, pc, probe>>
    /\ UNCHANGED idle

\* create_next_generation's child: child.brain = parent.copy_brain(), then
\* mutate_brain(child.brain).
LineageChild ==
    /\ variant = "lineage" /\ pc = "lineage"
    /\ generation < MaxLineage
    /\ \E m \in MutationChoices :
         LET c == copy_brain(birds[1], heap)
             mu == mutate_brain(c.brain, c.heap, m)
         IN  /\ birds' = <<Bird(mu.brain)>>
             /\ heap' = Collect(mu.heap, <<Bird(mu.brain)>>)
    /\ generation' = generation + 1
    /\ UNCHANGED <<variant, pc, probe>>
    /\ UNCHANGED idle

NextLineage == LineageElite \/ LineageChild
SpecLineage == InitLineage /\ [][NextLineage]_vars

(***************************************************************************)
(* Single calls of Pipe.collides_with and of Bird.update: the arguments    *)
(* are drawn, the call is made, probe keeps the arguments and the result.  *)
(***************************************************************************)
\* Pipe positions around a bird at x = 100: clear of it on either side,
\* touching it with the left edge (112) and with the right edge (8 + 80),
\* overlapping by a tenth, and x = bird.x.
CollidePipeXs == {-200, 70, 80, 90, 1000, 1110, 1120, 1130, 3000}
CollideBirdYs == {1000, 3000, 5000}
\* Gaps as (top_height, bottom_height).
CollideGaps == {<<1000, 5000>>, <<3100, 5000>>, <<500, 2500>>, <<2000, 4000>>}

InitCollide ==
    /\ variant = "collides_with"
    /\ pc = "call"
    /\ birds = <<>>
    /\ heap = EmptyHeap
    /\ generation = 0
    /\ \E x \in CollidePipeXs, y \in CollideBirdYs, g \in CollideGaps :
         probe = [fn |-> "collides_with",
                  pipe |-> [x |-> x, top_height |-> g[1], bottom_height |-> g[2]],
                  bird |-> [Bird(NoBrain) EXCEPT !.y = y],
                  result |-> FALSE]
    /\ InitIdle

CollideCall ==
    /\ variant = "collides_with" /\ pc = "call"
    /\ probe' = [probe EXCEPT !.result = collides_with(probe.pipe, probe.bird)]
    /\ pc' = "returned"
    /\ UNCHANGED <<variant, birds, heap, generation>>
    /\ UNCHANGED idle

SpecCollide == InitCollide /\ [][CollideCall]_vars

\* Heights and velocities of a live bird: near the two bounds and in
\* mid-air; at rest, falling, just after a flap (-7.0) and later in its rise.
\* 0 and 5799 are the heights of the boundary scenarios (y = 0.0, y = 579.9),
\* -4 and 1 the velocities (-0.4, 0.1) at which their outcome turns.
PhysicsYs == {0, 2, 30, 3000, 5700, 5790, 5798, 5799}
PhysicsVelocities == {-70, -34, -4, -2, 0, 1, 2, 4, 96}
PhysicsScores == {0, 3}

InitPhysics ==
    /\ variant = "update"
    /\ pc = "call"
    /\ birds = <<>>
    /\ heap = EmptyHeap
    /\ generation = 0
    /\ \E y \in PhysicsYs, v \in PhysicsVelocities, sc \in PhysicsScores :
         LET b == [Bird(NoBrain) EXCEPT !.y = y, !.velocity = v, !.score = sc]
         IN  probe = [fn |-> "update", bird |-> b, result |-> b]
    /\ InitIdle

PhysicsCall ==
    /\ variant = "update" /\ pc = "call"
    /\ probe' = [probe EXCEPT !.result = update(probe.bird)]
    /\ pc' = "returned"
    /\ UNCHANGED <<variant, birds, heap, generation>>
    /\ UNCHANGED idle

SpecPhysics == InitPhysics /\ [][PhysicsCall]_vars

\* One call of think's pipe selection for a bird at x = 100: pipe lists of
\* one to MaxTargetPipes pipes whose x lie behind the 50-pixel margin (40),
\* on it (50), just inside it (51), and at 10 short of, 10 beyond and 50
\* beyond the bird; the pipes differ in their gaps.
MaxTargetPipes == 3
TargetXs == {400, 500, 510, 900, 1100, 1500}
TargetLists ==
    UNION { [1..n -> TargetXs] : n \in 1..MaxTargetPipes }
TargetPipes(xs) ==
    [i \in 1..Len(xs) |->
        [x |-> xs[i], top_height |-> 1000 * i, bottom_height |-> 1000 * i + ai_gap_size]]

InitTarget ==
    /\ variant = "think"
    /\ pc = "call"
    /\ birds = <<>>
    /\ heap = EmptyHeap
    /\ generation = 0
    /\ \E xs \in TargetLists :
         probe = [fn |-> "closest_pipe", bird |-> Bird(NoBrain), pipes |-> TargetPipes(xs),
                  result |-> TargetPipes(xs)[1]]
    /\ InitIdle

TargetCall ==
    /\ variant = "think" /\ pc = "call"
    /\ probe' = [probe EXCEPT !.result = closest_pipe(probe.bird, probe.pipes)]
    /\ pc' = "returned"
    /\ UNCHANGED <<variant, birds, heap, generation>>
    /\ UNCHANGED idle

SpecTarget == InitTarget /\ [][TargetCall]_vars

\* One parent selection of create_next_generation: the pairs are sorted by
\* the fitness list run_generation returned, then one tournament is drawn.
\* The lists are those of MaxTournamentBirds birds over five fitness values
\* (0, 1.1, ... 4.4), ties and all-distinct lists included.
MaxTournamentBirds == 5
TournamentFitness == {0, 11, 22, 33, 44}

InitTournament ==
    /\ variant = "tournament_selection"
    /\ pc = "call"
    /\ birds = <<>>
    /\ heap = EmptyHeap
    /\ generation = 0
    /\ \E fit \in [1..MaxTournamentBirds -> TournamentFitness] :
         probe = [fn |-> "tournament_selection", fitness |-> fit,
                  bird_fitness_pairs |-> sort_desc(fit), sample |-> <<>>, result |-> 0]
    /\ InitIdle

TournamentCall ==
    /\ variant = "tournament_selection" /\ pc = "call"
    /\ \E sample \in Samples(Len(probe.bird_fitness_pairs)) :
         probe' = [probe EXCEPT
                     !.sample = sample,
                     !.result = tournament_selection(probe.bird_fitness_pairs,
                                                     probe.fitness, sample)]
    /\ pc' = "returned"
    /\ UNCHANGED <<variant, birds, heap, generation>>
    /\ UNCHANGED idle

SpecTournament == InitTournament /\ [][TournamentCall]_vars

\* One generation of run_generation followed far enough for the pipes to be
\* recycled more than once: two birds with brains drawn as in the
\* evolutionary variant, reset, and the pipes of create_pipes; every frame
\* is the frame loop's body with no quit polled.  MaxLongFrames is the frame
\* cap of run_generation, 1000.
MaxLongFrames == 1000
LongBirds == 2

InitLongGeneration ==
    /\ variant = "run_generation"
    /\ pc = "frame"
    /\ \E b \in [1..LongBirds -> BrainChoices] :
         /\ birds = [i \in 1..LongBirds |->
                       reset_bird(Bird([weights |-> i, bias |-> b[i].bias]))]
         /\ heap = [i \in 1..LongBirds |-> b[i].weights]
    /\ \E g \in InitialGaps : pipes = create_pipes(g)
    /\ frame_count = 0
    /\ generation = 1
    /\ best_score = 0
    /\ fitness_scores = NoResult
    /\ ranked = <<>>
    /\ new_birds = <<>>
    /\ game_over = FALSE
    /\ winner = NoWinner
    /\ flaps_left = 0
    /\ replacements = 0
    /\ frames_alive = <<>>
    /\ restarted = FALSE
    /\ seen_best = -1
    /\ quit_seen = FALSE
    /\ probe = NoProbe

LongFrame ==
    /\ variant = "run_generation" /\ pc = "frame"
    /\ frame_count < MaxLongFrames
    /\ alive_birds(birds) # {}
    /\ \E ps \in update_pipes(pipes) :
         /\ pipes' = ps
         /\ birds' = [i \in 1..Len(birds) |-> step_bird(birds[i], ps, heap, frame_count)]
    /\ frame_count' = frame_count + 1
    /\ UNCHANGED <<variant, pc, heap, generation, best_score, fitness_scores, ranked,
                   new_birds, game_over, winner, flaps_left, replacements, seen_best,
                   quit_seen, frames_alive, restarted, probe>>

SpecLongGeneration == InitLongGeneration /\ [][LongFrame]_vars

(***************************************************************************)
(* Properties.                                                             *)
(***************************************************************************)
\* A step that stays within one generation of the evolutionary variant
\* (BeginGeneration resets the birds, Replace installs new ones) or within
\* one game of the playable variant (a restart makes new players).
WithinOneRun ==
    \/ variant = "evolve" /\ pc # "evolve" /\ ~(pc = "offspring" /\ pc' = "evolve")
    \/ variant = "playable" /\ ~(game_over /\ ~game_over')

\* C1: within one generation (evolutionary variant) or one game (playable
\* variant, until restart) DEAD is terminal: a bird whose alive is false stays
\* in the list at its place, never becomes alive again, and every later step
\* leaves its y, velocity and score as they are.  So ALIVE -> DEAD happens
\* at most once.
C1_DeadIsTerminal ==
    [][WithinOneRun =>
          \A i \in 1..Len(birds) :
              ~birds[i].alive =>
                  /\ Len(birds') = Len(birds)
                  /\ ~birds'[i].alive
                  /\ birds'[i].y = birds[i].y
                  /\ birds'[i].velocity = birds[i].velocity
                  /\ birds'[i].score = birds[i].score]_vars

\* A generation in which one bird has been dead for at least two frames
\* (its fitness holds the frame of its death) while another still flies.
C1_Witness ==
    /\ variant = "evolve" /\ pc = "frame"
    /\ \E i, j \in 1..Len(birds) :
         /\ ~birds[i].alive
         /\ birds[j].alive
         /\ frame_count > (birds[i].fitness - 10 * birds[i].score) + 2

\* C2: run_generation assigns every bird's fitness exactly once.  While the
\* frame loop runs a live bird's fitness is 0; the frame in which a bird dies
\* sets it to score + frame_count * 0.1 (frame_count frames were survived);
\* no later frame and not the loop's end changes a dead bird's fitness; the
\* loop's end sets the fitness of a bird still alive to
\* score + frame_count * 0.1 with the final frame_count.
C2_FitnessAssignedOnce ==
    /\ [](variant = "evolve" /\ pc = "frame" =>
             \A i \in 1..Len(birds) : birds[i].alive => birds[i].fitness = 0)
    /\ [][variant = "evolve" /\ pc = "frame" =>
             \A i \in 1..Len(birds) :
                 /\ ~birds[i].alive => birds'[i].fitness = birds[i].fitness
                 /\ (birds[i].alive /\ ~birds'[i].alive) =>
                        birds'[i].fitness = 10 * birds'[i].score + frame_count
                 /\ (birds[i].alive /\ pc' \in {"offspring", "evolve"}) =>
                        /\ birds'[i].alive
                        /\ birds'[i].fitness = 10 * birds[i].score + frame_count]_vars

\* A finished generation that used the whole frame budget, with a bird that
\* died on the way (its fitness holds an earlier frame) and a survivor that
\* scored.
C2_Witness ==
    /\ variant = "evolve" /\ pc \in {"offspring", "evolve"}
    /\ fitness_scores.kind = "list"
    /\ frame_count = max_frames
    /\ \E i, j \in 1..Len(birds) :
         /\ ~birds[i].alive
         /\ birds[i].fitness < 10 * birds[i].score + frame_count
         /\ birds[i].fitness > 0
         /\ birds[j].alive
         /\ birds[j].score > 0
         /\ birds[j].fitness = 10 * birds[j].score + frame_count

\* C3: a quit (QUIT event or ESCAPE key) polled at the start of a frame makes
\* run_generation return None, not a list, and that step updates no pipe and
\* no bird; nothing happens afterwards (no frame, no generation, no
\* replacement, no change of best_score).  Without a quit in the poll
\* run_generation returns a list of population_size values; so None is
\* returned exactly when a quit was polled.
C3_QuitAborts ==
    /\ [](variant = "evolve" => (fitness_scores.kind = None <=> quit_seen))
    /\ [](fitness_scores.kind = "list" =>
             Len(fitness_scores.values) = population_size)
    /\ [][fitness_scores'.kind = None =>
             /\ pc' = "done"
             /\ UNCHANGED <<birds, pipes, heap, frame_count, generation, best_score,
                            ranked, new_birds, replacements>>]_vars
    /\ [][fitness_scores.kind # None]_vars

\* The second generation aborted in mid-flight: frames have run, a bird is
\* alive, the first generation left a best score and a replaced population.
C3_Witness ==
    /\ variant = "evolve" /\ pc = "done"
    /\ fitness_scores.kind = None
    /\ quit_seen
    /\ generation = 2 /\ replacements = 1
    /\ frame_count > 0
    /\ best_score > 0
    /\ \E i \in 1..Len(birds) : birds[i].alive

\* C4: once create_next_generation has replaced the population, however
\* often, whatever the fitness values and the draws were, the population
\* holds exactly population_size birds (as the first one does).
C4_PopulationSize ==
    (variant = "evolve" /\ (generation >= 1 \/ replacements >= 1)) =>
        Len(birds) = population_size

\* A replaced population, flying its generation.
C4_Witness ==
    /\ variant = "evolve" /\ pc = "frame"
    /\ replacements >= 1
    /\ frame_count > 0
    /\ Len(birds) = population_size

\* The birds of generation N that create_next_generation ranked first.
EliteRanks == 1..Min2(elite_count, Len(ranked))

\* C5: elitism.  While create_next_generation builds the next population
\* its first three birds carry the brains (four weights and bias, as values)
\* of three birds of generation N that no other bird of generation N beats
\* in fitness; no mutation of an offspring changes the value of a brain of
\* generation N or of a bird already in the new population (the copies do
\* not share their lists); and the population installed starts with those
\* three brain values.
C5_Elitism ==
    /\ [](variant = "evolve" /\ pc = "offspring" =>
             /\ Len(new_birds) >= Cardinality(EliteRanks)
             /\ Cardinality({ranked[i] : i \in EliteRanks}) = Cardinality(EliteRanks)
             /\ \A i \in EliteRanks :
                    /\ BrainValue(new_birds[i].brain, heap)
                          = BrainValue(birds[ranked[i]].brain, heap)
                    /\ \A k \in 1..Len(birds) :
                           k \notin {ranked[j] : j \in EliteRanks} =>
                               fitness_scores.values[k] <= fitness_scores.values[ranked[i]])
    /\ [][variant = "evolve" /\ pc = "offspring" /\ pc' = "offspring" =>
             /\ \A k \in 1..Len(birds) :
                    BrainValue(birds'[k].brain, heap') = BrainValue(birds[k].brain, heap)
             /\ \A j \in 1..Len(new_birds) :
                    BrainValue(new_birds'[j].brain, heap')
                      = BrainValue(new_birds[j].brain, heap)]_vars
    /\ [][variant = "evolve" /\ pc = "offspring" /\ pc' = "evolve" =>
             \A i \in EliteRanks :
                 BrainValue(birds'[i].brain, heap')
                   = BrainValue(birds[ranked[i]].brain, heap)]_vars

\* The new population holds an elite and, behind the elites, an offspring of
\* the same brain with one weight mutated.
C5_Witness ==
    /\ variant = "evolve" /\ pc = "offspring"
    /\ \E i \in EliteRanks, j \in 1..Len(new_birds) :
         /\ j > elite_count
         /\ new_birds[j].brain.bias = new_birds[i].brain.bias
         /\ Cardinality({g \in 1..4 : heap[new_birds[j].brain.weights][g]
                                        # heap[new_birds[i].brain.weights][g]}) = 1

\* C6: best_score never decreases, and after every completed generation it
\* is the greatest fitness any bird had in any generation completed so far.
C6_BestScore ==
    /\ [](variant = "evolve" /\ fitness_scores.kind = "list" => best_score = seen_best)
    /\ [][best_score' >= best_score]_vars

\* A second generation whose best fitness stays below the first one's.
C6_Witness ==
    /\ variant = "evolve" /\ generation = 2
    /\ fitness_scores.kind = "list"
    /\ pc = "evolve"
    /\ \A k \in 1..Len(birds) : birds[k].fitness < best_score

\* The brains, as values, of the birds of a list.
BrainsOf(bs) == {BrainValue(bs[i].brain, heap) : i \in 1..Len(bs)}

\* C7: in every state of an evolution run every bird's four weights and its
\* bias lie within [-3.0, 3.0]: the birds of the population and the elites
\* and offspring of the one being built.
C7_GenesInRange ==
    variant \in {"evolve", "lineage"} =>
        \A b \in BrainsOf(birds) \cup BrainsOf(new_birds) :
            /\ \A g \in 1..4 : -clamp_limit <= b.weights[g] /\ b.weights[g] <= clamp_limit
            /\ -clamp_limit <= b.bias /\ b.bias <= clamp_limit

\* A brain one of whose weights was mutated up to the upper limit; steps
\* of 0.3 from 2.0 reach 3.0 only where the clamp cuts them.
C7_Witness ==
    /\ variant = "lineage" /\ generation > 0
    /\ \E b \in BrainsOf(birds) : \E g \in 1..4 : b.weights[g] = clamp_limit

\* The greatest number of steps evolve may still take: what is left of the
\* current generation (frames, the end of the frame loop, offspring, the
\* replacement) and all of the generations to come.
StepsOfGeneration == max_frames + population_size + 4
StepsLeft ==
    IF pc = "done" THEN 0
    ELSE 1 + (generations - generation) * StepsOfGeneration
           + (IF pc = "frame" THEN (max_frames - frame_count) + population_size + 3
              ELSE IF pc = "offspring" THEN (population_size - Len(new_birds)) + 1
              ELSE 0)

\* C8: evolve terminates (no run goes on for ever: StepsLeft is never
\* negative and every step lowers it); when it has ended without a quit it
\* has run `generations` generations and replaced the population once less;
\* a frame loop runs another frame only with a bird alive and frames left,
\* and ends without a quit only when no bird is alive or the frame budget is
\* used up.
C8_Terminates ==
    /\ [](StepsLeft >= 0)
    /\ [][StepsLeft' < StepsLeft]_vars
    /\ []((pc = "done" /\ ~quit_seen) =>
             /\ generation = generations
             /\ replacements = generations - 1)
    /\ [][(pc = "frame" /\ pc' = "frame") =>
             /\ alive_birds(birds) # {}
             /\ frame_count < max_frames
             /\ frame_count' = frame_count + 1]_vars
    /\ [][(pc = "frame" /\ pc' # "frame" /\ ~quit_seen') =>
             \/ alive_birds(birds) = {}
             \/ frame_count = max_frames]_vars

\* evolve has ended without a quit; its last generation ended early with
\* every bird dead, an earlier one used the whole frame budget (its best
\* bird scored in every frame).
C8_Witness ==
    /\ variant = "evolve" /\ pc = "done" /\ ~quit_seen
    /\ generation = generations
    /\ replacements = generations - 1
    /\ alive_birds(birds) = {}
    /\ frame_count < max_frames
    /\ best_score = 11 * max_frames

\* The horizontal test of collides_with for intervals that share more than
\* an edge, and the one for closed intervals, which touching edges pass.
OverlapsOpen(pipe, bird) ==
    bird.x + bird_radius > pipe.x /\ bird.x - bird_radius < pipe.x + Pipe_width
OverlapsClosed(pipe, bird) ==
    bird.x + bird_radius >= pipe.x /\ bird.x - bird_radius <= pipe.x + Pipe_width
ReachesOutOfGap(pipe, bird) ==
    bird.y - bird_radius < pipe.top_height \/ bird.y + bird_radius > pipe.bottom_height
\* The two examples: a bird at y = 300 and a pipe at the bird's x.
ExampleCall(top, bottom) ==
    /\ probe.bird.y = 3000
    /\ probe.pipe.x = probe.bird.x
    /\ probe.pipe.top_height = top
    /\ probe.pipe.bottom_height = bottom

\* C9, as amended: collides_with returns true exactly when [x-12, x+12] and
\* [pipe.x, pipe.x+width] share more than an edge (x+12 > pipe.x and
\* x-12 < pipe.x+width) and the bird reaches above the gap's top
\* (y-12 < top_height) or below its bottom (y+12 > bottom_height); a bird
\* at y = 300 against a pipe at its own x does not collide with the gap
\* 100..500 and collides with the gap's top at 310.
C9_CollidesOpenOverlap ==
    (variant = "collides_with" /\ pc = "returned") =>
        /\ probe.result <=> (OverlapsOpen(probe.pipe, probe.bird)
                               /\ ReachesOutOfGap(probe.pipe, probe.bird))
        /\ ExampleCall(1000, 5000) => ~probe.result
        /\ ExampleCall(3100, 5000) => probe.result

\* A call with the bird's right edge on the pipe's left edge and the bird
\* out of the gap: no collision.
C9_Witness ==
    /\ variant = "collides_with" /\ pc = "returned"
    /\ probe.bird.x + bird_radius = probe.pipe.x
    /\ ReachesOutOfGap(probe.pipe, probe.bird)
    /\ ~probe.result

\* C9 as claimed: collides_with returns true exactly when the closed
\* intervals [x-12, x+12] and [pipe.x, pipe.x+width] overlap and the bird
\* reaches out of the gap.
C9_AsClaimed ==
    (variant = "collides_with" /\ pc = "returned") =>
        /\ probe.result <=> (OverlapsClosed(probe.pipe, probe.bird)
                               /\ ReachesOutOfGap(probe.pipe, probe.bird))
        /\ ExampleCall(1000, 5000) => ~probe.result
        /\ ExampleCall(3100, 5000) => probe.result

\* C10, as amended: one update of a bird with velocity v and height y
\* leaves velocity = v + 0.4 and height = y + v + 0.4 (the move uses the
\* velocity just raised), and changes no other field except possibly alive.
C10_UpdateMovesByNewVelocity ==
    (variant = "update" /\ pc = "returned") =>
        /\ probe.result.velocity = probe.bird.velocity + gravity
        /\ probe.result.y = probe.bird.y + probe.bird.velocity + gravity
        /\ [probe.result EXCEPT !.alive = TRUE]
             = [probe.bird EXCEPT !.velocity = probe.result.velocity,
                                  !.y = probe.result.y]

\* An update right after a flap in mid-air: the bird rises by 6.6, not by
\* 7.0, and stays alive.
C10_Witness ==
    /\ variant = "update" /\ pc = "returned"
    /\ probe.bird.y = bird_start_y /\ probe.bird.velocity = flap_velocity
    /\ probe.result.y = bird_start_y + flap_velocity + gravity
    /\ probe.result.alive

\* C10 as claimed: velocity = v + 0.4 and height = y + v, nothing else
\* changed except possibly alive.
C10_AsClaimed ==
    (variant = "update" /\ pc = "returned") =>
        /\ probe.result.velocity = probe.bird.velocity + gravity
        /\ probe.result.y = probe.bird.y + probe.bird.velocity
        /\ [probe.result EXCEPT !.alive = TRUE]
             = [probe.bird EXCEPT !.velocity = probe.result.velocity,
                                  !.y = probe.result.y]


\* C11, as amended: an update of a bird at y = 0.0 whose velocity is at most
\* -0.4 marks it dead (gravity is added before the move, so the bird ends
\* at or above y = 0 only from a velocity of at most -0.4).
C11_DeadFromCeiling ==
    (variant = "update" /\ pc = "returned") =>
        ((probe.bird.y = 0 /\ probe.bird.velocity <= -gravity) => ~probe.result.alive)

\* An update of a bird at y = 0.0 with velocity -0.4: it stays at 0.0 and
\* is dead.
C11_Witness ==
    /\ variant = "update" /\ pc = "returned"
    /\ probe.bird.y = 0 /\ probe.bird.velocity = -gravity
    /\ probe.result.y = 0
    /\ ~probe.result.alive

\* C11 as claimed: an update of a bird at y = 0.0 with any velocity <= 0
\* marks it dead.
C11_AsClaimed ==
    (variant = "update" /\ pc = "returned") =>
        ((probe.bird.y = 0 /\ probe.bird.velocity <= 0) => ~probe.result.alive)


\* C16, as amended: the bounds check of update marks a live bird dead
\* exactly when its updated y is at most 0 or at least 580, that is outside
\* the open interval (0, 580); a bird whose updated y is exactly 0 or
\* exactly 580 is dead.
C16_DeadOnAndBeyondBounds ==
    (variant = "update" /\ pc = "returned" /\ probe.bird.alive) =>
        (probe.result.alive <=> (0 < probe.result.y /\ probe.result.y < floor_y))

\* An update that ends exactly on the lower bound, y = 580: the bird is dead.
C16_Witness ==
    /\ variant = "update" /\ pc = "returned"
    /\ probe.bird.alive
    /\ probe.result.y = floor_y
    /\ ~probe.result.alive

\* C16 as claimed: the bird is marked dead exactly when its updated y lies
\* outside the closed interval [0, 580]; at exactly 0 or 580 it stays alive.
C16_AsClaimed ==
    (variant = "update" /\ pc = "returned" /\ probe.bird.alive) =>
        (probe.result.alive <=> (0 <= probe.result.y /\ probe.result.y <= floor_y))


\* A population all of whose brains are four zero weights and a zero bias.
ZeroBrain == [weights |-> <<0, 0, 0, 0>>, bias |-> 0]
AllZeroBrains ==
    /\ variant = "evolve" /\ birds # <<>> /\ pipes # <<>>
    /\ \A i \in 1..Len(birds) : BrainValue(birds[i].brain, heap) = ZeroBrain
\* The height of a bird that started at y = 300 at rest and fell for k updates.
height_after_fall(k) == bird_start_y + gravity * ((k * (k + 1)) \div 2)
\* The number of updates after which such a bird is at or below y = 580.
frames_to_fall ==
    CHOOSE k \in 1..max_frames :
        height_after_fall(k) >= floor_y /\ height_after_fall(k - 1) < floor_y

\* C12, as amended: in a generation whose birds all have zero weights and
\* zero bias the network's output is 0 and think is false; no bird flaps
\* (a live bird's velocity is 0.4 times the frames run and it has scored in
\* each of them); a bird dies at the bounds check (y >= 580, no pipe touches
\* it) in its update number frames_to_fall, the frame with 0-based index
\* f = frames_to_fall - 1, with score f and fitness f + f * 0.1.
C12_ZeroBrainsFall ==
    AllZeroBrains =>
        \A i \in 1..Len(birds) :
            /\ think_output(birds[i], pipes, heap) = 0
            /\ ~think(birds[i], pipes, heap)
            /\ (pc = "frame" /\ birds[i].alive) =>
                   /\ birds[i].velocity = gravity * frame_count
                   /\ birds[i].score = frame_count
                   /\ birds[i].fitness = 0
            /\ (pc # "evolve" /\ ~birds[i].alive) =>
                   /\ birds[i].velocity = gravity * frames_to_fall
                   /\ birds[i].y = height_after_fall(frames_to_fall)
                   /\ \A k \in 1..Len(pipes) : ~collides_with(pipes[k], birds[i])
                   /\ birds[i].score = frames_to_fall - 1
                   /\ birds[i].fitness = 10 * (frames_to_fall - 1) + (frames_to_fall - 1)

\* The frame loop of such a generation has ended: every bird fell and is dead.
C12_Witness ==
    /\ AllZeroBrains
    /\ pc = "offspring"
    /\ alive_birds(birds) = {}
    /\ frame_count = frames_to_fall
    /\ \A i \in 1..Len(birds) : birds[i].fitness = 11 * (frames_to_fall - 1)

\* C12 as claimed: the birds never flap and die at the bounds check, and a
\* dead bird has no score and the fitness frames_to_fall * 0.1 (counting the
\* frames before its death, or those and the frame of its death).
C12_AsClaimed ==
    AllZeroBrains =>
        \A i \in 1..Len(birds) :
            /\ ~think(birds[i], pipes, heap)
            /\ (pc # "evolve" /\ ~birds[i].alive) =>
                   /\ birds[i].y >= floor_y
                   /\ birds[i].score = 0
                   /\ birds[i].fitness \in {frames_to_fall - 1, frames_to_fall}


\* update_birds' pass test: the pipe's trailing edge is behind the bird by
\* more than 5.
FullyPast(pipe, bird) == passed_by(pipe, bird) /\ pipe.x + Pipe_width < bird.x - 50
\* The pipe as it was before this frame's update_pipes moved it.
BeforeMove(pipe) == [pipe EXCEPT !.x = @ + playable_pipe_speed]
\* No pipe has been removed yet: the first pipe is the one created at x = 400.
FirstPipeKept == pipes # <<>> /\ pipes[1].x = 4000 - playable_pipe_speed * frame_count

\* C13 as claimed: in the playable variant a bird's score rises only in a
\* frame in which it moves fully past a pipe (the pipe was not fully past
\* before the frame and is after it) and then by one; so a live bird's
\* score is the number of pipes fully past it.
C13_AsClaimed ==
    /\ [][(variant = "playable" /\ ~game_over /\ Len(birds') = Len(birds)) =>
             \A i \in 1..Len(birds) :
                 birds'[i].score # birds[i].score =>
                     /\ birds'[i].score = birds[i].score + 1
                     /\ \E k \in 1..Len(pipes') :
                            /\ FullyPast(pipes'[k], birds'[i])
                            /\ ~FullyPast(BeforeMove(pipes'[k]), birds[i])]_vars
    /\ []((variant = "playable" /\ FirstPipeKept) =>
             \A i \in 1..Len(birds) :
                 birds[i].alive =>
                     birds[i].score
                       = Cardinality({k \in 1..Len(pipes) : FullyPast(pipes[k], birds[i])}))


\* run_generation has returned its list and the birds are still the ones it ran.
CompletedGeneration ==
    /\ variant = "evolve" /\ pc \in {"offspring", "evolve", "done"}
    /\ fitness_scores.kind = "list"
    /\ Len(frames_alive) = Len(birds)

\* C14: of two birds of the same completed generation the one that finished
\* more frames alive has the strictly greater fitness; and the fitness
\* formula never gives less for one more point of score at the same frame
\* count, or for one more frame at the same score.
C14_LongerLifeFitter ==
    /\ CompletedGeneration =>
          \A i, j \in 1..Len(birds) :
              frames_alive[i] > frames_alive[j] => birds[i].fitness > birds[j].fitness
    /\ (variant = "evolve" /\ pc = "frame") =>
          \A i \in 1..Len(birds) :
              /\ fitness_of([birds[i] EXCEPT !.score = @ + 1], frame_count)
                    >= fitness_of(birds[i], frame_count)
              /\ fitness_of(birds[i], frame_count + 1) >= fitness_of(birds[i], frame_count)

\* A completed generation with a bird alive at the frame cap and a bird
\* that died on the way.
C14_Witness ==
    /\ CompletedGeneration /\ pc = "offspring"
    /\ \E i, j \in 1..Len(birds) :
          /\ birds[i].alive /\ ~birds[j].alive
          /\ frames_alive[i] = max_frames /\ frames_alive[j] \in 1..(max_frames - 1)
          /\ birds[i].fitness > birds[j].fitness


\* The heights restart_game gives the human and the three AI birds.
RestartHeights == <<2500, 3000, 3500, 2000>>

\* The game restart_game builds, seen after the update_pipes and update_birds
\* of the same iteration of run: game_over false, no winner, four birds
\* alive with score 0 that have made one update from velocity 0 at their
\* start height (an AI bird possibly after a flap), the AI brains drawn
\* anew, and the three pipes created at x = 400, 600, 800 moved once.
FreshGameAfterOneFrame ==
    /\ ~game_over /\ winner = NoWinner /\ frame_count = 1
    /\ Len(birds) = 4
    /\ \A i \in 1..4 :
          /\ birds[i].alive /\ birds[i].score = 0 /\ birds[i].x = bird_start_x
          /\ birds[i].is_ai = (i > 1)
          /\ birds[i].velocity \in {gravity} \cup (IF i > 1 THEN {flap_velocity + gravity} ELSE {})
          /\ birds[i].y = RestartHeights[i] + birds[i].velocity
    /\ birds[1].brain = NoBrain
    /\ \A i \in 2..4 : BrainValue(birds[i].brain, heap) \in PlayableBrainChoices
    /\ \A i, j \in 2..4 : i # j => birds[i].brain.weights # birds[j].brain.weights
    /\ Len(pipes) = 3
    /\ \A k \in 1..3 : pipes[k].x = 4000 + (k - 1) * pipe_spacing - playable_pipe_speed

\* A step of a running game is what an iteration with no key or with SPACE
\* does: the pipes and the birds are updated once, nothing is re-created.
RunningStep ==
    /\ frame_count' = frame_count + 1
    /\ heap' = heap
    /\ \E gap_center \in PlayableGapCenters \cup {0} :
          LET ps2 == playable_update_pipes(pipes, gap_center)
          IN  /\ pipes' = ps2
              /\ \/ birds' = update_birds(birds, ps2, heap)
                 \/ birds' = update_birds([birds EXCEPT ![1] = playable_flap(birds[1])],
                                          ps2, heap)

\* C15: in the playable variant a restart happens only from a game that is
\* over, and then leaves a fresh game (game_over false, human and three AI
\* birds re-created alive with score 0 from velocity 0, fresh brains, three
\* pipes from x = 400, 600, 800); a game that is over changes in no other
\* way, and a running game only ever makes its ordinary update, whatever
\* key arrives, R included.
C15_RestartOnlyWhenOver ==
    [][variant = "playable" =>
         IF game_over
         THEN \/ <<birds, pipes, heap, game_over, winner, frame_count, restarted>>'
                   = <<birds, pipes, heap, game_over, winner, frame_count, restarted>>
              \/ restarted' /\ FreshGameAfterOneFrame'
         ELSE restarted' = restarted /\ RunningStep]_vars

\* A restarted game, one frame in.
C15_Witness == variant = "playable" /\ restarted /\ FreshGameAfterOneFrame


\* The pipes of ps the scan considers for a bird, and the index the claim
\* names: the earliest of the nearest among them, the first pipe if none.
AheadOf(bird, ps) == {i \in 1..Len(ps) : ps[i].x > bird.x - 500}
NearestAhead(bird, ps) ==
    {i \in AheadOf(bird, ps) :
        \A j \in AheadOf(bird, ps) : Abs(ps[i].x - bird.x) <= Abs(ps[j].x - bird.x)}
TargetIndex(bird, ps) ==
    IF AheadOf(bird, ps) = {} THEN 1 ELSE SetMin(NearestAhead(bird, ps))

\* C17: the pipe think reads is, among the pipes with x > bird.x - 50, the
\* one with the least |x - bird.x|, the earliest in the list on a tie; with
\* no such pipe it is the first pipe of the list.
C17_TargetIsNearestAhead ==
    (variant = "think" /\ pc = "returned") =>
        probe.result = probe.pipes[TargetIndex(probe.bird, probe.pipes)]

\* A call with a pipe behind the margin and two pipes at the same distance:
\* the one listed first of the two is chosen.
C17_Witness ==
    /\ variant = "think" /\ pc = "returned"
    /\ Len(probe.pipes) = 3
    /\ probe.pipes[1].x = 400 /\ probe.pipes[2].x = 1100 /\ probe.pipes[3].x = 900
    /\ probe.result = probe.pipes[2]


\* C18: within a generation of the evolutionary variant a bird's score goes
\* up by exactly 1 in each frame the bird finishes alive and changes in no
\* other step; a bird that dies in the frame with 0-based index f leaves it
\* with score f and fitness f + 0.1 f; a bird alive when the frame cap is
\* reached has the cap as its score.
C18_ScoreCountsLiveFrames ==
    /\ [][(variant = "evolve" /\ pc = "frame") =>
             \A i \in 1..Len(birds) :
                 /\ birds'[i].score = IF frame_count' = frame_count + 1 /\ birds'[i].alive
                                      THEN birds[i].score + 1
                                      ELSE birds[i].score
                 /\ (birds[i].alive /\ ~birds'[i].alive) =>
                        /\ birds'[i].score = frame_count
                        /\ birds'[i].fitness = 10 * frame_count + frame_count]_vars
    /\ []((variant = "evolve" /\ pc = "frame" /\ frame_count = max_frames) =>
             \A i \in 1..Len(birds) : birds[i].alive => birds[i].score = max_frames)

\* The frame cap is reached with a bird alive and a bird that died by a
\* pipe collision in an earlier frame.
C18_Witness ==
    /\ variant = "evolve" /\ pc = "frame" /\ frame_count = max_frames
    /\ \E i, j \in 1..Len(birds) :
          /\ birds[i].alive /\ birds[i].score = max_frames
          /\ ~birds[j].alive /\ birds[j].score >= 1
          /\ 0 < birds[j].y /\ birds[j].y < floor_y
          /\ birds[j].fitness = 11 * birds[j].score


\* The third-lowest value of a fitness list of three or more birds.
ThirdLowest(fit) ==
    CHOOSE v \in SeqRange(fit) :
        /\ Cardinality({i \in 1..Len(fit) : fit[i] < v}) <= 2
        /\ Cardinality({i \in 1..Len(fit) : fit[i] <= v}) >= 3
\* The birds a sample of positions of the sorted pairs stands for.
Drawn(rk, sample) == {rk[sample[k]] : k \in 1..Len(sample)}

\* C19: the parent a tournament returns is one of 3 distinct birds drawn
\* from the whole population and has the highest fitness of the three; so
\* its fitness is at least the third-lowest of the population, and with all
\* fitness values distinct it is neither of the two lowest-ranked birds.
C19_ParentWinsTournament ==
    (variant = "tournament_selection" /\ pc = "returned") =>
        LET fit == probe.fitness
            rk == probe.bird_fitness_pairs
            S == Drawn(rk, probe.sample)
        IN  /\ Cardinality(S) = tournament_size
            /\ S \subseteq 1..Len(fit)
            /\ probe.result \in S
            /\ \A i \in S : fit[probe.result] >= fit[i]
            /\ fit[probe.result] >= ThirdLowest(fit)
            /\ (\A i, j \in 1..Len(fit) : i # j => fit[i] # fit[j]) =>
                  probe.result \notin {rk[Len(rk)], rk[Len(rk) - 1]}

\* A tournament among birds of all-distinct fitness that drew the three
\* lowest-ranked: the parent is the third-lowest bird.
C19_Witness ==
    /\ variant = "tournament_selection" /\ pc = "returned"
    /\ \A i, j \in 1..Len(probe.fitness) : i # j => probe.fitness[i] # probe.fitness[j]
    /\ probe.result = probe.bird_fitness_pairs[Len(probe.fitness) - 2]
    /\ probe.fitness[probe.result] = ThirdLowest(probe.fitness)


\* C20: in the playable variant the pipe list is never empty, and after
\* every update_pipes since the start or a restart it holds 3 or 4 pipes in
\* strictly increasing x, neighbours exactly pipe_spacing (200) apart, none
\* with x <= -width.
C20_PipeListShape ==
    variant = "playable" =>
        /\ pipes # <<>>
        /\ frame_count >= 1 =>
              /\ Len(pipes) \in {3, 4}
              /\ \A k \in 1..(Len(pipes) - 1) :
                    /\ pipes[k].x < pipes[k + 1].x
                    /\ pipes[k + 1].x - pipes[k].x = pipe_spacing
              /\ \A k \in 1..Len(pipes) : pipes[k].x > -Pipe_width

\* The update that removed the first pipe of the game (its x had come to
\* -width) and appended a fourth pipe behind the last.
C20_Witness ==
    /\ variant = "playable" /\ frame_count >= 1
    /\ 4000 - playable_pipe_speed * frame_count = -Pipe_width
    /\ Len(pipes) = 4
    /\ pipes[1].x = 6000 - playable_pipe_speed * frame_count
    /\ pipes[4].x = pipes[3].x + pipe_spacing


\* C21: in a generation of the evolutionary variant, whenever think has run
\* (the pipes of a frame are moved before the birds decide), some pipe has
\* x > bird.x - 50, whatever the recycle offsets were: the scan finds a
\* pipe and the fall-back to the first pipe is not taken.
C21_SomePipeAhead ==
    (variant = "run_generation" /\ frame_count >= 1) =>
        /\ Len(pipes) = 3
        /\ \A i \in 1..Len(birds) :
              /\ \E k \in 1..Len(pipes) : pipes[k].x > birds[i].x - 500
              /\ closest_scan(birds[i], pipes, 1, 0, -1) # 0

\* Late in a generation a bird is alive, the first pipe of the list is
\* behind the margin (the scan skips it) and has been recycled before.
C21_Witness ==
    /\ variant = "run_generation" /\ frame_count >= 600
    /\ \E i \in 1..Len(birds) : birds[i].alive
    /\ pipes[1].x <= bird_start_x - 500
    /\ closest_scan(birds[1], pipes, 1, 0, -1) \in {2, 3}

\* C22 as claimed: in a generation of the evolutionary variant there are
\* always exactly three pipes, and the extents [x, x + width] of two
\* different pipes never overlap.
C22_AsClaimed ==
    variant = "run_generation" =>
        /\ Len(pipes) = 3
        /\ \A j, k \in 1..Len(pipes) :
              j # k => (pipes[j].x + Pipe_width < pipes[k].x
                        \/ pipes[k].x + Pipe_width < pipes[j].x)


\* Every bird of the playable game is dead.
AllDead == \A i \in 1..Len(birds) : ~birds[i].alive

\* C23: in the playable variant game_over is true only with all four birds
\* dead; a frame of the game loop that starts with all birds dead and
\* game_over still false ends with game_over true; and a frame that starts
\* and ends with game_over true (no restart) leaves every bird and every
\* pipe as it was, whatever key arrived, the human's flap included.
C23_GameOverIsFinal ==
    /\ []((variant = "playable" /\ game_over) => (Len(birds) = 4 /\ AllDead))
    /\ [][(variant = "playable" /\ pc = "run") =>
             /\ (AllDead /\ ~game_over) => game_over'
             /\ (game_over /\ game_over') =>
                    /\ birds' = birds
                    /\ pipes' = pipes
                    /\ heap' = heap
                    /\ winner' = winner
                    /\ frame_count' = frame_count]_vars

\* The game is over: all four birds are dead, the last of them died before
\* the final frame, and end_game has named a winner.
C23_Witness ==
    /\ variant = "playable" /\ game_over /\ AllDead
    /\ Len(birds) = 4
    /\ winner.name \in SeqRange(BirdNames)
    /\ frame_count >= 2

=============================================================================
